---- MODULE Spec2Model ----
(***************************************************************************)
(* Model of credmon/CredentialMonitors/OAuthCredmonWebserver/              *)
(* OAuthCredmonWebserver.py: the /key/<key>, /login/<provider> and         *)
(* /return/<provider> handlers, the Flask session they share, and the      *)
(* credential directory they write.                                        *)
(*                                                                         *)
(* Strings that the code transforms (provider names, handles, key ids) are *)
(* sequences of one-character strings, so that join, rstrip, replace and   *)
(* re.match act on them as in the code.  A JSON object is a function from  *)
(* its keys to its values.                                                 *)
(***************************************************************************)
EXTENDS Integers, Sequences, FiniteSets, TLC

\* ------------------------------------------------------------------ bounds
\* CSRF states issued by oauth_login in one run.
MaxStates == 2
\* Token exchanges answered by the provider in one run.
MaxTokens == 1
\* File-system failures (mkstemp, write, rename) injected in one run.
MaxFaults == 1
\* Records (ClassAds) in a key file of the createSession specification.
MaxAds == 2

\* ------------------------------------------------------------- pure helpers

\* str.rstrip(' ')
RECURSIVE rstrip(_)
rstrip(s) ==
    IF s = << >> THEN << >>
    ELSE IF s[Len(s)] = " " THEN rstrip(SubSeq(s, 1, Len(s) - 1))
    ELSE s

\* ' '.join((provider, handle)).rstrip(' ')
get_provider_str(provider, handle) == rstrip(provider \o <<" ">> \o handle)

\* provider.replace(' ', '_')
replace_space(provider) ==
    [i \in DOMAIN provider |-> IF provider[i] = " " THEN "_" ELSE provider[i]]

\* re.match("[0-9a-fA-F]+", key): the pattern is anchored at the start of the
\* string only, so it matches as soon as the first character is a hex digit.
HexChars == {"a", "1"}
re_match_hex(k) == Len(k) >= 1 /\ k[1] \in HexChars

\* The display names of the records of a key file, in file order.
AdName(ad) == get_provider_str(ad.Provider, ad.Handle)

\* dict.pop(key) on a JSON object: the object without the key.
DictPop(d, k) == [x \in DOMAIN d \ {k} |-> d[x]]

\* ----------------------------------------------------------------- inputs

\* Key-file records.  Only the fields the handlers branch on are kept:
\* Provider, Handle, LocalUser, ClientId and whether UserUrl is present.
AdA == [Provider |-> <<"a">>, Handle |-> << >>, LocalUser |-> "u",
        ClientId |-> "ca", HasUserUrl |-> TRUE]
AdB == [Provider |-> <<"b">>, Handle |-> <<"a">>, LocalUser |-> "u",
        ClientId |-> "cb", HasUserUrl |-> FALSE]
AdC == [Provider |-> <<"b">>, Handle |-> << >>, LocalUser |-> "u",
        ClientId |-> "cc", HasUserUrl |-> TRUE]

\* Starts of the authorization-flow specification: the key file on disk, and
\* the key file the browser's session was built from (none: an empty session).
FlowStarts ==
    { << <<AdA, AdC>>, << >> >>,
      << <<AdA>>, <<AdA>> >>,
      << <<AdA, AdC>>, <<AdA, AdC>> >>,
      << <<AdA, AdB>>, <<AdA, AdB>> >>,
      << <<AdA>>, <<AdA, AdC>> >> }

\* The key id under which the key file is stored in the credential directory.
TheKey == <<"a", "1">>

\* Key ids a browser may put in /key/<key>.
KeyIds == { TheKey, <<"a", "g">>, <<"g">> }

\* Provider names a browser may put in /login/<provider>.
LoginNames == { <<"a">>, <<"b">>, <<"b", " ", "a">>, <<"c">> }

\* Provider names a provider may call back in /return/<provider>.
ReturnNames == { <<"b">>, <<"a", " ">> }

\* Records of the createSession specification.
KeyAds ==
    [Provider : { <<"a">>, <<"a", " ", "b">> },
     Handle   : { << >>, <<"b">> },
     LocalUser : {"u", "v"},
     ClientId : {"ca"},
     HasUserUrl : {TRUE}]

RECURSIVE SeqsUpTo(_, _)
SeqsUpTo(S, n) ==
    IF n = 0 THEN { << >> }
    ELSE LET shorter == SeqsUpTo(S, n - 1)
         IN shorter \cup { Append(s, x) : s \in shorter, x \in S }

\* Key files of the createSession specification, the empty file included.
AllKeyFiles == SeqsUpTo(KeyAds, MaxAds)

\* ------------------------------------------------------------------ state

VARIABLES
    disk,          \* key id -> key file (sequence of records) in the cred dir
    session,       \* the Flask session: the browser's cookie between requests,
                   \* the handler's working session during one
    session_dict,  \* the local dict of the last request, if it was /key/<key>
    pc,            \* position of the request in flight; "idle" between requests
    req,           \* locals of the /return request in flight
    files,         \* destination path -> contents, in the credential directory
    tmp,           \* temporary files of the request in flight
    calls,         \* outside effects of the last request: file and network use
    result,        \* how the last finished request ended
    op,            \* the handler of the last request: key, login or return
    pre,           \* session and files as they were when the request in
                   \* flight began (NoPre between requests)
    nStates,       \* CSRF states issued so far
    nTokens,       \* token exchanges answered so far
    nFaults,       \* file-system failures injected so far
    tabs           \* requests of the browser's tabs that run side by side:
                   \* each handler's own copy of the session, until its
                   \* response reaches the browser

vars == <<disk, session, session_dict, pc, req, files, tmp, calls, result,
          op, pre, nStates, nTokens, nFaults, tabs>>

\* A Flask session with no key set.
EmptySession ==
    [present |-> FALSE, providers |-> << >>, logged_in |-> FALSE,
     key_path |-> << >>, local_username |-> "", outgoing_provider |-> {}]

\* The browser's tabs, and a tab with no request under way.
Tabs == {1, 2}
IdleTab == [pc |-> "idle", last |-> "none", session |-> EmptySession,
            provider |-> << >>, state |-> 0, raced |-> FALSE]

\* No /return request in flight.
NoReq == [provider |-> << >>, ad |-> AdA, token |-> << >>, triad |-> << >>, i |-> 0]

\* A provider's entry as /key/<key> seeds it (lines 165-166): no 'state' and
\* no 'username' key yet (0 and "" stand for the missing key).
NewProviderSession == [logged_in |-> FALSE, state |-> 0, username |-> ""]

\* Mutant of BuildSessionDict: the providers dict is reset for every record,
\* so only the last record's provider is left.
BuildSessionDict_LastOnly(key_path, ads) ==
    [present |-> TRUE,
     providers |-> [p \in {AdName(ads[Len(ads)])} |-> NewProviderSession],
     logged_in |-> FALSE,
     key_path |-> key_path,
     local_username |-> ads[Len(ads)].LocalUser,
     outgoing_provider |-> {}]

\* Lines 153-173: the dict built from a non-empty key file.
BuildSessionDict(key_path, ads) ==
    [present |-> TRUE,
     providers |-> [p \in {AdName(ads[i]) : i \in DOMAIN ads} |-> NewProviderSession],
     logged_in |-> FALSE,
     key_path |-> key_path,
     local_username |-> ads[Len(ads)].LocalUser,
     outgoing_provider |-> {}]

NoPre == [session |-> EmptySession, files |-> << >>]

\* get_provider_ad (lines 48-69): the first record of the key file at
\* key_path whose display name is `provider`, or an exception.
get_provider_ad(provider, key_path) ==
    IF key_path \notin DOMAIN disk
    THEN [ok |-> FALSE, ad |-> AdA, calls |-> {"fs_exists"}]
    ELSE LET ads == disk[key_path]
             hits == {i \in DOMAIN ads : AdName(ads[i]) = provider}
         IN IF hits = {}
            THEN [ok |-> FALSE, ad |-> AdA, calls |-> {"fs_exists", "fs_open"}]
            ELSE [ok |-> TRUE,
                  ad |-> ads[CHOOSE i \in hits : \A j \in hits : i <= j],
                  calls |-> {"fs_exists", "fs_open"}]

\* Line 175, `session = session_dict`: an assignment inside key() binds the
\* function's local name `session`; the Flask session object is not written.
StoreSession(flask_session, built) == flask_session

\* A request that ends in an exception.  Flask answers it with an error
\* response and saves the session as the handler left it, or (when exceptions
\* propagate to the server) sends no cookie: the browser keeps `before`.
Raise(exc, working, before) ==
    /\ result' = exc
    /\ pc' = "idle"
    /\ req' = NoReq
    /\ pre' = NoPre
    /\ session' \in {working, before}

\* ---------------------------------------------------------------- /key/<key>

\* key(key), lines 140-177.
key(k) ==
    /\ pc = "idle"
    /\ UNCHANGED tabs
    /\ op' = "key"
    /\ pre' = NoPre
    /\ tmp' = << >>
    /\ pc' = "idle"
    /\ UNCHANGED <<disk, req, files, nStates, nTokens, nFaults>>
    /\ IF ~re_match_hex(k)
       THEN /\ result' = "Exception"
            /\ calls' = {}
            /\ session_dict' = EmptySession
            /\ session' = session
       ELSE IF k \notin DOMAIN disk
       THEN /\ result' = "Exception"
            /\ calls' = {"fs_exists"}
            /\ session_dict' = EmptySession
            /\ session' = session
       ELSE IF disk[k] = << >>
       THEN \* line 173: provider_ad was never bound
            /\ result' = "NameError"
            /\ calls' = {"fs_exists", "fs_open"}
            /\ session_dict' = EmptySession
            /\ session' = session
       ELSE /\ result' = "ok"
            /\ calls' = {"fs_exists", "fs_open"}
            /\ session_dict' = BuildSessionDict(k, disk[k])
            /\ session' = StoreSession(session, session_dict')

\* ----------------------------------------------------------- /login/<provider>

\* Mutant of oauth_login: the in-flight provider is recorded before the
\* provider is looked up in the session.
oauth_login_record_first(provider) ==
    /\ pc = "idle"
    /\ UNCHANGED tabs
    /\ op' = "login"
    /\ pre' = NoPre
    /\ tmp' = << >>
    /\ pc' = "idle"
    /\ session_dict' = EmptySession
    /\ UNCHANGED <<disk, req, files, nTokens, nFaults>>
    /\ IF ~session.present
       THEN /\ result' = "KeyError"
            /\ calls' = {}
            /\ UNCHANGED <<session, nStates>>
       ELSE IF provider \notin DOMAIN session.providers
       THEN /\ result' = "Exception"
            /\ calls' = {}
            /\ session' = [session EXCEPT !.outgoing_provider = {provider}]
            /\ UNCHANGED nStates
       ELSE LET found == get_provider_ad(provider, session.key_path)
            IN IF ~found.ok
               THEN /\ result' = "Exception"
                    /\ calls' = found.calls
                    /\ UNCHANGED <<session, nStates>>
               ELSE /\ nStates < MaxStates
                    /\ nStates' = nStates + 1
                    /\ result' = "ok"
                    /\ calls' = found.calls
                    /\ session' =
                         [session EXCEPT
                            !.providers[provider].state = nStates + 1,
                            !.outgoing_provider = {provider}]

\* Mutant of oauth_login: a state that is already stored for the provider is
\* kept (setdefault), the new one is only sent to the provider.
oauth_login_keep_state(provider) ==
    /\ pc = "idle"
    /\ UNCHANGED tabs
    /\ op' = "login"
    /\ pre' = NoPre
    /\ tmp' = << >>
    /\ pc' = "idle"
    /\ session_dict' = EmptySession
    /\ UNCHANGED <<disk, req, files, nTokens, nFaults>>
    /\ IF ~session.present
       THEN /\ result' = "KeyError"
            /\ calls' = {}
            /\ UNCHANGED <<session, nStates>>
       ELSE IF provider \notin DOMAIN session.providers
       THEN /\ result' = "Exception"
            /\ calls' = {}
            /\ UNCHANGED <<session, nStates>>
       ELSE LET found == get_provider_ad(provider, session.key_path)
            IN IF ~found.ok
               THEN /\ result' = "Exception"
                    /\ calls' = found.calls
                    /\ UNCHANGED <<session, nStates>>
               ELSE /\ nStates < MaxStates
                    /\ nStates' = nStates + 1
                    /\ result' = "ok"
                    /\ calls' = found.calls
                    /\ session' =
                         [session EXCEPT
                            !.providers[provider].state =
                               IF @ = 0 THEN nStates + 1 ELSE @,
                            !.outgoing_provider = {provider}]

\* oauth_login(provider), lines 179-227.  The state that
\* OAuth2Session.authorization_url generates is fresh at every call.
oauth_login(provider) ==
    /\ pc = "idle"
    /\ UNCHANGED tabs
    /\ op' = "login"
    /\ pre' = NoPre
    /\ tmp' = << >>
    /\ pc' = "idle"
    /\ session_dict' = EmptySession
    /\ UNCHANGED <<disk, req, files, nTokens, nFaults>>
    /\ IF ~session.present
       THEN \* session['providers']: KeyError, logged and re-raised
            /\ result' = "KeyError"
            /\ calls' = {}
            /\ UNCHANGED <<session, nStates>>
       ELSE IF provider \notin DOMAIN session.providers
       THEN /\ result' = "Exception"
            /\ calls' = {}
            /\ UNCHANGED <<session, nStates>>
       ELSE LET found == get_provider_ad(provider, session.key_path)
            IN IF ~found.ok
               THEN /\ result' = "Exception"
                    /\ calls' = found.calls
                    /\ UNCHANGED <<session, nStates>>
               ELSE /\ nStates < MaxStates
                    /\ nStates' = nStates + 1
                    /\ result' = "ok"
                    /\ calls' = found.calls
                    /\ session' =
                         [session EXCEPT
                            !.providers[provider].state = nStates + 1,
                            !.outgoing_provider = {provider}]

\* ---------------------------------------------------------- /return/<provider>

\* Callback URLs: the `state` parameter (0: none) and whether `code` is there.
Callbacks == [state : 0..MaxStates, has_code : BOOLEAN]

\* What the provider's token endpoint answers.
Answers == {"rejected", "token", "token_refresh"}

\* What the identity endpoint answers: no answer, a body that is not JSON, or
\* a JSON object with or without the `login` and `sub` fields.
UserInfos == [kind : {"failed", "nonjson", "json"},
              has_login : BOOLEAN, has_sub : BOOLEAN]

\* Mutant of ResolveProvider: the name in the URL wins over the in-flight
\* provider whenever the session knows it.
ResolveProvider_PreferCalled(sess, called) ==
    IF get_provider_str(called, << >>) \in DOMAIN sess.providers
       \/ sess.outgoing_provider = {}
    THEN get_provider_str(called, << >>)
    ELSE CHOOSE p \in sess.outgoing_provider : TRUE

\* Line 236: session.pop('outgoing_provider', get_provider_str(provider, '')).
ResolveProvider(sess, called) ==
    IF sess.outgoing_provider # {}
    THEN CHOOSE p \in sess.outgoing_provider : TRUE
    ELSE get_provider_str(called, << >>)

\* Mutant of ParseAuthorizationResponse: the session is built without the
\* stored state, so the callback's state is not compared.
ParseAuthorizationResponse_NoState(stored, cb) ==
    IF ~cb.has_code THEN "MissingCodeError" ELSE "ok"

\* Lines 246, 257-260: OAuth2Session(client_id, state=state).fetch_token parses
\* the authorization response against the stored state before it posts.
ParseAuthorizationResponse(stored, cb) ==
    IF cb.state # stored THEN "MismatchingStateError"
    ELSE IF ~cb.has_code THEN "MissingCodeError"
    ELSE "ok"

\* The token object the provider returns for exchange number n.
TokenOf(answer, n) ==
    IF answer = "token_refresh"
    THEN [access_token |-> <<n>>, refresh_token |-> <<n>>]
    ELSE [access_token |-> <<n>>]

\* Mutant of ResolveUsername: `sub` is looked for before `login`.
ResolveUsername_SubFirst(info) ==
    IF info.kind = "failed" THEN [raises |-> "ConnectionError", username |-> ""]
    ELSE IF info.kind = "nonjson" THEN [raises |-> "", username |-> "Unknown"]
    ELSE IF info.has_sub THEN [raises |-> "", username |-> "sub"]
    ELSE IF info.has_login THEN [raises |-> "", username |-> "login"]
    ELSE [raises |-> "", username |-> "Unknown"]

\* Lines 265-275: the username the identity answer yields, or the exception.
ResolveUsername(info) ==
    IF info.kind = "failed" THEN [raises |-> "ConnectionError", username |-> ""]
    ELSE IF info.kind = "nonjson" THEN [raises |-> "", username |-> "Unknown"]
    ELSE IF info.has_login THEN [raises |-> "", username |-> "login"]
    ELSE IF info.has_sub THEN [raises |-> "", username |-> "sub"]
    ELSE [raises |-> "", username |-> "Unknown"]

\* Mutant of SplitToken: the refresh token is copied, not popped, so it stays
\* in the access object.
SplitToken_KeepRefresh(token, ad) ==
    LET had == "refresh_token" \in DOMAIN token
    IN << token,
          [refresh_token |-> IF had THEN token.refresh_token ELSE << >>],
          [client_id |-> ad.ClientId, use_refresh_token |-> had] >>

\* Lines 277-296: the access, refresh and metadata objects, in the order in
\* which the handler writes them.  The empty sequence is the empty string.
SplitToken(token, ad) ==
    LET had == "refresh_token" \in DOMAIN token
    IN << IF had THEN DictPop(token, "refresh_token") ELSE token,
          [refresh_token |-> IF had THEN token.refresh_token ELSE << >>],
          [client_id |-> ad.ClientId, use_refresh_token |-> had] >>

Suffix == <<"use", "top", "meta">>

\* Lines 299-305: the destination of file i of the triad.
DestPath(local_username, provider, i) ==
    <<local_username, replace_space(provider), Suffix[i]>>

\* Mutant of LoggerWriter_write: the message is converted with str() first,
\* so any object is accepted.
LoggerWriter_write_any(message_kind) == "ok"

\* LoggerWriter.write (lines 28-30) on a str, or on an exception object,
\* which has no rstrip.
LoggerWriter_write(message_kind) ==
    IF message_kind = "str" THEN "ok" ELSE "AttributeError"

\* credmon.utils.atomic_rename(tmp, dest): dest is replaced in one step by the
\* temporary file as it is at that moment.
atomic_rename(fs, tmp_file, dest) == (dest :> tmp_file) @@ fs

\* Mutant of MarkLoggedIn: the loop over the providers is missing, the
\* session's flag stays as line 336 sets it.
MarkLoggedIn_NoLoop(sess, provider) ==
    [sess EXCEPT !.providers[provider].logged_in = TRUE, !.logged_in = TRUE]

\* Mutant of MarkLoggedIn: the loop over the providers sets their flags.
MarkLoggedIn_AllProviders(sess, provider) ==
    [sess EXCEPT !.providers = [p \in DOMAIN sess.providers |->
                                  [sess.providers[p] EXCEPT !.logged_in = TRUE]],
                 !.logged_in = TRUE]

\* Lines 333-339: the provider's flag, then the session's.
MarkLoggedIn(sess, provider) ==
    LET providers == [sess.providers EXCEPT ![provider].logged_in = TRUE]
    IN [sess EXCEPT !.providers = providers,
                    !.logged_in = \A p \in DOMAIN providers : providers[p].logged_in]

\* Mutant of oauth_return: the stored state is read with a default
\* (.get('state')), and an OAuth2Session without a state compares none.
oauth_return_default_state(called, cb) ==
    /\ pc = "idle"
    /\ UNCHANGED tabs
    /\ op' = "return"
    /\ tmp' = << >>
    /\ session_dict' = EmptySession
    /\ UNCHANGED <<disk, files, nStates, nTokens, nFaults>>
    /\ LET provider == ResolveProvider(session, called)
           popped == [session EXCEPT !.outgoing_provider = {}]
       IN IF ~session.present
          THEN /\ calls' = {}
               /\ Raise("KeyError", popped, session)
          ELSE IF provider \notin DOMAIN session.providers
          THEN /\ calls' = {}
               /\ Raise("Exception", popped, session)
          ELSE LET found == get_provider_ad(provider, session.key_path)
               IN IF ~found.ok
                  THEN /\ calls' = found.calls
                       /\ Raise("Exception", popped, session)
                  ELSE LET stored == session.providers[provider].state
                           parsed == IF stored = 0
                                     THEN ParseAuthorizationResponse_NoState(stored, cb)
                                     ELSE ParseAuthorizationResponse(stored, cb)
                       IN /\ calls' = found.calls
                          /\ IF parsed # "ok"
                             THEN Raise(parsed, popped, session)
                             ELSE /\ session' = popped
                                  /\ pre' = [session |-> session, files |-> files]
                                  /\ result' = "running"
                                  /\ pc' = "fetch"
                                  /\ req' = [provider |-> provider,
                                             ad |-> found.ad,
                                             token |-> << >>,
                                             triad |-> << >>,
                                             i |-> 0]

\* oauth_return(provider), lines 229-252 and the first half of fetch_token:
\* resolve the provider, look up its record and stored state, and parse the
\* callback URL against that state.
oauth_return(called, cb) ==
    /\ pc = "idle"
    /\ UNCHANGED tabs
    /\ op' = "return"
    /\ tmp' = << >>
    /\ session_dict' = EmptySession
    /\ UNCHANGED <<disk, files, nStates, nTokens, nFaults>>
    /\ LET provider == ResolveProvider(session, called)
           popped == [session EXCEPT !.outgoing_provider = {}]
       IN IF ~session.present
          THEN /\ calls' = {}
               /\ Raise("KeyError", popped, session)
          ELSE IF provider \notin DOMAIN session.providers
          THEN /\ calls' = {}
               /\ Raise("Exception", popped, session)
          ELSE LET found == get_provider_ad(provider, session.key_path)
               IN IF ~found.ok
                  THEN /\ calls' = found.calls
                       /\ Raise("Exception", popped, session)
                  ELSE IF session.providers[provider].state = 0
                  THEN \* line 245: no 'state' key
                       /\ calls' = found.calls
                       /\ Raise("KeyError", popped, session)
                  ELSE LET parsed == ParseAuthorizationResponse(
                                         session.providers[provider].state, cb)
                       IN /\ calls' = found.calls
                          /\ IF parsed # "ok"
                             THEN Raise(parsed, popped, session)
                             ELSE /\ session' = popped
                                  /\ pre' = [session |-> session, files |-> files]
                                  /\ result' = "running"
                                  /\ pc' = "fetch"
                                  /\ req' = [provider |-> provider,
                                             ad |-> found.ad,
                                             token |-> << >>,
                                             triad |-> << >>,
                                             i |-> 0]

\* Mutant of fetch_token: the provider's error answer is taken for a token.
fetch_token_no_check(answer) ==
    /\ pc = "fetch"
    /\ UNCHANGED tabs
    /\ calls' = calls \cup {"net_token"}
    /\ UNCHANGED <<disk, session_dict, files, tmp, op, nStates, nFaults>>
    /\ nTokens < MaxTokens
    /\ nTokens' = nTokens + 1
    /\ pc' = "userinfo"
    /\ req' = [req EXCEPT !.token = TokenOf(answer, nTokens + 1)]
    /\ UNCHANGED <<session, result, pre>>

\* Lines 254-261: the POST of fetch_token to the provider's token endpoint.
fetch_token(answer) ==
    /\ pc = "fetch"
    /\ UNCHANGED tabs
    /\ calls' = calls \cup {"net_token"}
    /\ UNCHANGED <<disk, session_dict, files, tmp, op, nStates, nFaults>>
    /\ IF answer = "rejected"
       THEN /\ Raise("TokenExchangeError", session, pre.session)
            /\ UNCHANGED nTokens
       ELSE /\ nTokens < MaxTokens
            /\ nTokens' = nTokens + 1
            /\ pc' = "userinfo"
            /\ req' = [req EXCEPT !.token = TokenOf(answer, nTokens + 1)]
            /\ UNCHANGED <<session, result, pre>>

\* Lines 263-296: the identity fetch, then the split of the token.
get_user_info(info) ==
    /\ pc = "userinfo"
    /\ UNCHANGED tabs
    /\ UNCHANGED <<disk, session_dict, files, tmp, op, nStates, nTokens, nFaults>>
    /\ IF ~req.ad.HasUserUrl
       THEN \* provider_ad['UserUrl']: KeyError, not caught by `except ValueError`
            /\ calls' = calls
            /\ Raise("KeyError", session, pre.session)
       ELSE LET got == ResolveUsername(info)
            IN /\ calls' = calls \cup {"net_userinfo"}
               /\ IF got.raises # ""
                  THEN Raise(got.raises, session, pre.session)
                  ELSE /\ session' = [session EXCEPT
                                        !.providers[req.provider].username = got.username]
                       /\ result' = "running"
                       /\ pre' = pre
                       /\ pc' = "mkstemp"
                       /\ req' = [req EXCEPT !.triad = SplitToken(req.token, req.ad),
                                             !.i = 1]

\* Mutant of mkstemp: the except clause prints and does not re-raise.
mkstemp_no_raise(ok) ==
    /\ pc = "mkstemp"
    /\ UNCHANGED tabs
    /\ UNCHANGED <<disk, session_dict, files, calls, op, nStates, nTokens>>
    /\ IF ok
       THEN /\ tmp' = (req.i :> [data |-> req.triad[req.i], complete |-> FALSE]) @@ tmp
            /\ pc' = "dump"
            /\ UNCHANGED <<session, result, req, pre, nFaults>>
       ELSE /\ nFaults < MaxFaults
            /\ nFaults' = nFaults + 1
            /\ pc' = "mark"
            /\ UNCHANGED <<session, result, req, pre, tmp>>

\* Lines 309, 316, 320: tempfile.mkstemp(dir = user_cred_dir) for file req.i.
mkstemp(ok) ==
    /\ pc = "mkstemp"
    /\ UNCHANGED tabs
    /\ UNCHANGED <<disk, session_dict, files, calls, op, nStates, nTokens>>
    /\ IF ok
       THEN /\ tmp' = (req.i :> [data |-> req.triad[req.i], complete |-> FALSE]) @@ tmp
            /\ pc' = "dump"
            /\ UNCHANGED <<session, result, req, pre, nFaults>>
       ELSE /\ nFaults < MaxFaults
            /\ nFaults' = nFaults + 1
            /\ tmp' = tmp
            /\ Raise("OSError", session, pre.session)

\* Mutant of json_dump: the temporary file is not closed (its buffer not
\* flushed) before the handler goes on.
json_dump_unclosed(ok) ==
    /\ pc = "dump"
    /\ UNCHANGED tabs
    /\ UNCHANGED <<disk, session_dict, files, calls, op, nStates, nTokens>>
    /\ IF ok
       THEN /\ tmp' = tmp
            /\ pc' = IF req.i < 3 THEN "mkstemp" ELSE "rename"
            /\ req' = [req EXCEPT !.i = IF req.i < 3 THEN req.i + 1 ELSE 1]
            /\ UNCHANGED <<session, result, pre, nFaults>>
       ELSE /\ nFaults < MaxFaults
            /\ nFaults' = nFaults + 1
            /\ tmp' = tmp
            /\ Raise("OSError", session, pre.session)

\* Lines 313-314, 317-318, 321-322: json.dump into the temporary file; the
\* file is whole once the with-block has closed it.
json_dump(ok) ==
    /\ pc = "dump"
    /\ UNCHANGED tabs
    /\ UNCHANGED <<disk, session_dict, files, calls, op, nStates, nTokens>>
    /\ IF ok
       THEN /\ tmp' = [tmp EXCEPT ![req.i].complete = TRUE]
            /\ pc' = IF req.i < 3 THEN "mkstemp" ELSE "rename"
            /\ req' = [req EXCEPT !.i = IF req.i < 3 THEN req.i + 1 ELSE 1]
            /\ UNCHANGED <<session, result, pre, nFaults>>
       ELSE /\ nFaults < MaxFaults
            /\ nFaults' = nFaults + 1
            /\ tmp' = tmp
            /\ Raise("OSError", session, pre.session)

\* Lines 324-330: the three renames inside one try; an OSError is handed to
\* sys.stderr.write, which is LoggerWriter.write.
rename(ok) ==
    /\ pc = "rename"
    /\ UNCHANGED tabs
    /\ UNCHANGED <<disk, session_dict, calls, op, nStates, nTokens>>
    /\ IF ok
       THEN /\ files' = atomic_rename(files, tmp[req.i],
                           DestPath(session.local_username, req.provider, req.i))
            /\ tmp' = [j \in DOMAIN tmp \ {req.i} |-> tmp[j]]
            /\ pc' = IF req.i < 3 THEN "rename" ELSE "mark"
            /\ req' = [req EXCEPT !.i = IF req.i < 3 THEN req.i + 1 ELSE 0]
            /\ UNCHANGED <<session, result, pre, nFaults>>
       ELSE /\ nFaults < MaxFaults
            /\ nFaults' = nFaults + 1
            /\ UNCHANGED <<files, tmp>>
            /\ IF LoggerWriter_write("OSError") = "ok"
               THEN /\ pc' = "mark"
                    /\ UNCHANGED <<session, result, req, pre>>
               ELSE Raise(LoggerWriter_write("OSError"), session, pre.session)

\* Lines 332-341: mark the provider, recompute the session's flag, redirect.
mark_logged_in ==
    /\ pc = "mark"
    /\ UNCHANGED tabs
    /\ UNCHANGED <<disk, session_dict, files, tmp, calls, op, nStates, nTokens, nFaults>>
    /\ session' = MarkLoggedIn(session, req.provider)
    /\ pre' = NoPre
    /\ result' = "ok"
    /\ pc' = "idle"
    /\ req' = NoReq

\* ------------------------------------------------- requests side by side

\* The Flask session is a signed cookie (app.secret_key, line 43): the browser
\* sends each request with the cookie it holds at that moment, the handler
\* works on its own copy, and the response replaces the browser's cookie.
\* Between these requests `session` is the browser's cookie.

\* The tabs once tab t has sent a request: its handler holds `sess`; the
\* request overlaps every request that is under way in another tab.
TabStart(t, kind, sess, provider, state) ==
    [u \in Tabs |->
       IF u = t
       THEN [pc |-> kind, last |-> "none", session |-> sess,
             provider |-> provider, state |-> state,
             raced |-> \E v \in Tabs \ {t} : tabs[v].pc # "idle"]
       ELSE IF tabs[u].pc # "idle" THEN [tabs[u] EXCEPT !.raced = TRUE]
       ELSE tabs[u]]

\* The tabs once the request of tab t has ended in an exception.
TabFailed(t) == [tabs EXCEPT ![t] = [IdleTab EXCEPT !.last = "failed"]]

\* oauth_login (lines 179-227) for the request of tab t.  A request that
\* raises has not written the session.
tab_login(t, provider) ==
    /\ pc = "idle"
    /\ tabs[t].pc = "idle"
    /\ UNCHANGED <<disk, session, session_dict, pc, req, files, tmp, calls,
                   result, op, pre, nTokens, nFaults>>
    /\ IF \/ ~session.present
          \/ provider \notin DOMAIN session.providers
          \/ ~get_provider_ad(provider, session.key_path).ok
       THEN /\ tabs' = TabFailed(t)
            /\ UNCHANGED nStates
       ELSE /\ nStates < MaxStates
            /\ nStates' = nStates + 1
            /\ tabs' = TabStart(t, "login",
                         [session EXCEPT
                            !.providers[provider].state = nStates + 1,
                            !.outgoing_provider = {provider}],
                         provider, nStates + 1)

\* oauth_return (lines 229-252 and the parse of the callback in fetch_token)
\* for the request of tab t.  A request that raises here has only popped
\* 'outgoing_provider'; its error response is taken to arrive at once.
tab_return(t, called, cb) ==
    /\ pc = "idle"
    /\ tabs[t].pc = "idle"
    /\ UNCHANGED <<disk, session_dict, pc, req, files, tmp, calls,
                   result, op, pre, nStates, nTokens, nFaults>>
    /\ LET provider == ResolveProvider(session, called)
           popped == [session EXCEPT !.outgoing_provider = {}]
           accepted ==
               /\ session.present
               /\ provider \in DOMAIN session.providers
               /\ get_provider_ad(provider, session.key_path).ok
               /\ session.providers[provider].state # 0
               /\ ParseAuthorizationResponse(
                      session.providers[provider].state, cb) = "ok"
       IN IF accepted
          THEN /\ tabs' = TabStart(t, "exchange", popped, provider,
                                   session.providers[provider].state)
               /\ session' = session
          ELSE /\ tabs' = TabFailed(t)
               /\ session' \in {popped, session}

\* The rest of oauth_return (lines 254-341) for the request of tab t: the
\* token exchange, the identity fetch, the triad and the loggedIn flags.  The
\* token is told apart by the state that authorised its exchange.
tab_exchange(t, answer, info) ==
    /\ pc = "idle"
    /\ tabs[t].pc = "exchange"
    /\ UNCHANGED <<disk, session, session_dict, pc, req, tmp, calls,
                   result, op, pre, nStates, nTokens, nFaults>>
    /\ LET mine == tabs[t]
           ad == get_provider_ad(mine.provider, mine.session.key_path).ad
           got == ResolveUsername(info)
           triad == SplitToken(TokenOf(answer, mine.state), ad)
           dest(i) == DestPath(mine.session.local_username, mine.provider, i)
           whole(i) == [data |-> triad[i], complete |-> TRUE]
       IN IF answer = "rejected" \/ ~ad.HasUserUrl \/ got.raises # ""
          THEN /\ tabs' = [tabs EXCEPT ![t].pc = "failed"]
               /\ files' = files
          ELSE /\ files' = atomic_rename(
                             atomic_rename(
                               atomic_rename(files, whole(1), dest(1)),
                               whole(2), dest(2)),
                             whole(3), dest(3))
               /\ tabs' = [tabs EXCEPT
                             ![t].pc = "return",
                             ![t].session =
                                MarkLoggedIn(
                                  [mine.session EXCEPT
                                     !.providers[mine.provider].username =
                                        got.username],
                                  mine.provider)]

\* The response of tab t's request reaches the browser, which keeps the
\* session the handler saved (after an exception: that session or none).
tab_respond(t) ==
    /\ pc = "idle"
    /\ tabs[t].pc \in {"login", "return", "failed"}
    /\ UNCHANGED <<disk, session_dict, pc, req, files, tmp, calls,
                   result, op, pre, nStates, nTokens, nFaults>>
    /\ IF tabs[t].pc = "failed"
       THEN /\ session' \in {tabs[t].session, session}
            /\ tabs' = TabFailed(t)
       ELSE /\ session' = tabs[t].session
            /\ tabs' = [tabs EXCEPT ![t] = [tabs[t] EXCEPT
                                              !.pc = "idle",
                                              !.last = tabs[t].pc,
                                              !.session = EmptySession]]

\* ---------------------------------------------------------- specifications

\* The triad an earlier login of user "u" at provider "a" left in the
\* credential directory (exchange number 0).
OldTriad ==
    LET triad == SplitToken(TokenOf("token_refresh", 0), AdA)
    IN [p \in {DestPath("u", <<"a">>, i) : i \in 1..3} |->
          [data |-> triad[CHOOSE i \in 1..3 : DestPath("u", <<"a">>, i) = p],
           complete |-> TRUE]]

InitCommon ==
    /\ session_dict = EmptySession
    /\ pc = "idle"
    /\ req = NoReq
    /\ files = OldTriad
    /\ tmp = << >>
    /\ calls = {}
    /\ result = "none"
    /\ nStates = 0
    /\ nTokens = 0
    /\ nFaults = 0
    /\ tabs = [t \in Tabs |-> IdleTab]

\* Answers of the provider in the authorization-flow specification.
FlowAnswers == {"rejected", "token"}
FlowUserInfos ==
    {info \in UserInfos : info.has_login /\ ~info.has_sub}

\* The authorization flow.  The Flask session is a cookie the browser sends
\* with each request: it is empty, or holds a session of the shape key()
\* builds, for the key file on disk or for an earlier version of it.
Init ==
    /\ InitCommon
    /\ \E start \in FlowStarts :
          /\ disk = (TheKey :> start[1])
          /\ session = IF start[2] = << >> THEN EmptySession
                       ELSE BuildSessionDict(TheKey, start[2])
    /\ op = "none"
    /\ pre = NoPre

Next ==
    \/ \E k \in KeyIds : key(k)
    \/ \E p \in LoginNames : oauth_login(p)
    \/ \E p \in ReturnNames, cb \in Callbacks : oauth_return(p, cb)
    \/ \E answer \in FlowAnswers : fetch_token(answer)
    \/ \E info \in FlowUserInfos : get_user_info(info)
    \/ \E ok \in BOOLEAN : mkstemp(ok)
    \/ \E ok \in BOOLEAN : json_dump(ok)
    \/ \E ok \in BOOLEAN : rename(ok)
    \/ mark_logged_in

Spec == Init /\ [][Next]_vars

\* createSession alone, over every key file of up to MaxAds records.
InitKey ==
    /\ InitCommon
    /\ disk \in { (TheKey :> kf) : kf \in AllKeyFiles }
    /\ session = EmptySession
    /\ op = "none"
    /\ pre = NoPre

NextKey == \E k \in KeyIds : key(k)

SpecKey == InitKey /\ [][NextKey]_vars

\* The authorization flow with every answer of the token endpoint and of the
\* identity endpoint, and a file system that does not fail.
NextExchange ==
    \/ \E p \in LoginNames : oauth_login(p)
    \/ \E p \in ReturnNames, cb \in Callbacks : oauth_return(p, cb)
    \/ \E answer \in Answers : fetch_token(answer)
    \/ \E info \in UserInfos : get_user_info(info)
    \/ mkstemp(TRUE)
    \/ json_dump(TRUE)
    \/ rename(TRUE)
    \/ mark_logged_in

SpecExchange == Init /\ [][NextExchange]_vars

\* Two tabs of one browser that send /login and /return requests without
\* waiting for each other's responses.
NextRace ==
    \/ \E t \in Tabs, p \in LoginNames : tab_login(t, p)
    \/ \E t \in Tabs, p \in ReturnNames, cb \in Callbacks : tab_return(t, p, cb)
    \/ \E t \in Tabs, answer \in FlowAnswers, info \in FlowUserInfos :
          tab_exchange(t, answer, info)
    \/ \E t \in Tabs : tab_respond(t)

SpecRace == Init /\ [][NextRace]_vars

\* ------------------------------------------------------------------ claims

NetCalls == {"net_token", "net_userinfo"}

\* The loggedIn flags of a session: its own and each provider's.
LoggedInFlags(sess) ==
    [logged_in |-> sess.logged_in,
     providers |-> [p \in DOMAIN sess.providers |-> sess.providers[p].logged_in]]

\* C1: a /return request whose callback carries a state different from the
\* state stored for the resolved provider ends in an exception, and that
\* request makes no network call, writes no credential file and changes no
\* loggedIn flag.
C1_CsrfMismatchRejected ==
    [][LET rejected == /\ pc' = "idle"
                       /\ result' \notin {"ok", "running"}
                       /\ calls' \cap NetCalls = {}
                       /\ files' = files
                       /\ LoggedInFlags(session') = LoggedInFlags(session)
           mismatch(called, cb) ==
               LET p == ResolveProvider(session, called)
               IN /\ pc = "idle"
                  /\ session.present
                  /\ p \in DOMAIN session.providers
                  /\ cb.state # session.providers[p].state
       IN \* every step is a rejection, or is no /return with a mismatching state
          \/ rejected
          \/ \A called \in ReturnNames, cb \in Callbacks :
                ~(mismatch(called, cb) /\ oauth_return(called, cb))]_vars

\* C1 witness: a callback was refused for its state while a state was stored.
C1_Witness ==
    /\ op = "return"
    /\ result = "MismatchingStateError"
    /\ \E p \in DOMAIN session.providers : session.providers[p].state # 0

\* C2: between requests, after failed ones too, the session's logged_in is
\* true exactly when every provider's logged_in is true; so it is in the
\* session that /key/<key> builds.
C2_LoggedInIffAll ==
    /\ (pc = "idle" /\ session.present)
       => (session.logged_in <=>
             \A p \in DOMAIN session.providers : session.providers[p].logged_in)
    /\ session_dict.present
       => (session_dict.logged_in <=>
             \A p \in DOMAIN session_dict.providers :
                session_dict.providers[p].logged_in)

\* C2 witness: a session of one provider is logged in after a /return, and
\* some session of two providers has one of them logged in.
C2_Witness ==
    /\ pc = "idle"
    /\ op = "return"
    /\ result = "ok"
    /\ session.logged_in

C2_WitnessPartial ==
    /\ pc = "idle"
    /\ session.present
    /\ ~session.logged_in
    /\ \E p \in DOMAIN session.providers : session.providers[p].logged_in

\* C3: a /return request that succeeds for provider P leaves P logged in, and
\* leaves the logged_in flag and the stored state of every other provider as
\* they were when the request began.
C3_OnlyThisProviderMarked ==
    [][(mark_logged_in)
       => /\ session'.providers[req.provider].logged_in
          /\ result' = "ok"
          /\ \A q \in DOMAIN session'.providers \ {req.provider} :
               /\ session'.providers[q].logged_in = pre.session.providers[q].logged_in
               /\ session'.providers[q].state = pre.session.providers[q].state]_vars

\* C3 witness: a successful /return in a session with another provider, which
\* holds a stored state and is not logged in.
C3_Witness ==
    /\ op = "return"
    /\ result = "ok"
    /\ pc = "idle"
    /\ \E p, q \in DOMAIN session.providers :
         /\ p # q
         /\ session.providers[p].logged_in
         /\ ~session.providers[q].logged_in
         /\ session.providers[q].state # 0

\* The (Provider, Handle) pairs and the display names of a key file.
Pairs(ads) == { <<ads[i].Provider, ads[i].Handle>> : i \in DOMAIN ads }
Names(ads) == { AdName(ads[i]) : i \in DOMAIN ads }

\* C4 as claimed: for a key file with at least one record, /key/<key> builds
\* a session with one provider entry per distinct (Provider, Handle) pair,
\* every entry and the session itself not logged in.
C4_OnePerPair ==
    (op = "key" /\ result = "ok")
    => /\ Cardinality(DOMAIN session_dict.providers) = Cardinality(Pairs(disk[TheKey]))
       /\ \A p \in DOMAIN session_dict.providers :
            ~session_dict.providers[p].logged_in
       /\ ~session_dict.logged_in

\* C4 as amended: one provider entry per distinct display name (Provider and
\* Handle joined by a space, trailing spaces stripped), every entry and the
\* session itself not logged in; pairs with the same display name share one
\* entry, so there are at most as many entries as pairs.
C4_OnePerDisplayName ==
    (op = "key" /\ result = "ok")
    => /\ session_dict.present
       /\ DOMAIN session_dict.providers = Names(disk[TheKey])
       /\ Cardinality(DOMAIN session_dict.providers) <= Cardinality(Pairs(disk[TheKey]))
       /\ \A p \in DOMAIN session_dict.providers :
            ~session_dict.providers[p].logged_in
       /\ ~session_dict.logged_in

\* C4 witness: a session built from a key file with two distinct pairs that
\* have two distinct display names.
C4_Witness ==
    /\ op = "key"
    /\ result = "ok"
    /\ Cardinality(Pairs(disk[TheKey])) = 2
    /\ Cardinality(DOMAIN session_dict.providers) = 2

\* The destination paths of the request in flight, and what the request
\* writes to each.
ReqPath(i) == DestPath(session.local_username, req.provider, i)
ReqFile(i) == [data |-> req.triad[i], complete |-> TRUE]

\* Every destination file is whole; while a request writes its triad, every
\* destination path that existed when the request began still exists, and
\* holds what it held then or what the request writes to it.
OldOrNew ==
    /\ \A p \in DOMAIN files : files[p].complete
    /\ pc \in {"mkstemp", "dump", "rename", "mark"}
       => /\ DOMAIN pre.files \subseteq DOMAIN files
          /\ \A p \in DOMAIN files :
               \/ p \in DOMAIN pre.files /\ files[p] = pre.files[p]
               \/ \E i \in 1..3 : p = ReqPath(i) /\ files[p] = ReqFile(i)

\* C5: at every instant of the credential write, a failed rename included,
\* each destination path holds its whole old or its whole new contents, and
\* is not absent if it existed before.
C5_OldOrNewAtEveryInstant ==
    OldOrNew /\ [][OldOrNew' /\ (rename(FALSE) => files' = files)]_vars

\* C5 witness: between the first and the last rename, one path holds the new
\* contents, another still the old, and a temporary file is being written or
\* was left behind.
C5_Witness ==
    /\ pc = "rename"
    /\ req.i = 2
    /\ ReqPath(1) \in DOMAIN pre.files
    /\ files[ReqPath(1)] = ReqFile(1)
    /\ files[ReqPath(1)] # pre.files[ReqPath(1)]
    /\ files[ReqPath(2)] = pre.files[ReqPath(2)]

\* C5 witness: a rename has failed after the first file was replaced.
C5_WitnessFailedRename ==
    /\ op = "return"
    /\ result = "AttributeError"
    /\ \E p \in DOMAIN files : files[p].data # OldTriad[p].data
    /\ \E p \in DOMAIN files : files[p].data = OldTriad[p].data

\* C6: when the creation of a temporary file fails, the request ends in an
\* exception, no destination file differs from what it was when the request
\* began, and no loggedIn flag has changed.
C6_MkstempFailureAborts ==
    [][mkstemp(FALSE)
       => /\ pc' = "idle"
          /\ result' = "OSError"
          /\ files' = pre.files
          /\ LoggedInFlags(session') = LoggedInFlags(pre.session)]_vars

\* C6 witness: the third temporary file could not be created.
C6_Witness ==
    /\ op = "return"
    /\ result = "OSError"
    /\ DOMAIN tmp = {1, 2}
    /\ \A i \in DOMAIN tmp : tmp[i].complete

\* C7: a failed rename ends the request in an exception without changing a
\* loggedIn flag, and a request marks its provider logged in only when all
\* three files of the triad hold what the request wrote.
C7_RenameFailureIsFatal ==
    [][/\ rename(FALSE)
          => /\ pc' = "idle"
             /\ result' \notin {"ok", "running"}
             /\ LoggedInFlags(session') = LoggedInFlags(pre.session)
       /\ mark_logged_in
          => \A i \in 1..3 :
                /\ ReqPath(i) \in DOMAIN files
                /\ files[ReqPath(i)] = ReqFile(i)]_vars

\* C7 witness: the second rename failed and the request ended in an exception.
C7_Witness ==
    /\ op = "return"
    /\ result = "AttributeError"
    /\ DOMAIN tmp = {2, 3}
    /\ \A p \in DOMAIN session.providers : ~session.providers[p].logged_in

\* C8: when the provider rejects the token exchange, the request ends in an
\* exception, no destination file is created or replaced, and no loggedIn
\* flag changes.
C8_RejectedExchange ==
    [][fetch_token("rejected")
       => /\ pc' = "idle"
          /\ result' = "TokenExchangeError"
          /\ files' = pre.files
          /\ LoggedInFlags(session') = LoggedInFlags(pre.session)]_vars

\* C8 witness: the token endpoint was called and the exchange was rejected.
C8_Witness ==
    /\ op = "return"
    /\ result = "TokenExchangeError"
    /\ "net_token" \in calls

\* C9 as claimed: an identity fetch that fails in any way (no UserUrl in the
\* record, a failed request, a body that is not JSON) raises nothing: the
\* username becomes "Unknown" and the request goes on to write the triad.
C9_IdentityFailureNonFatal ==
    [][\A info \in FlowUserInfos :
         ( /\ pc = "userinfo"
           /\ ~req.ad.HasUserUrl \/ info.kind \in {"failed", "nonjson"}
           /\ get_user_info(info) )
         => /\ pc' = "mkstemp"
            /\ session'.providers[req.provider].username = "Unknown"]_vars

\* The provider C10 claims: the in-flight provider when one is recorded, else
\* the name in the URL as it is.
ClaimedProvider(called) ==
    IF session.outgoing_provider # {}
    THEN CHOOSE p \in session.outgoing_provider : TRUE
    ELSE called

\* The same with the trailing spaces of the name in the URL stripped.
StrippedProvider(called) ==
    IF session.outgoing_provider # {}
    THEN CHOOSE p \in session.outgoing_provider : TRUE
    ELSE rstrip(called)

\* What C10 says of a /return step that works on provider r: when r is not
\* in the session the request ends in an exception without a network call or
\* a file write, and a request that goes on to the exchange goes on for r.
ReturnStepFor(r) ==
    /\ r \notin DOMAIN session.providers
       => /\ pc' = "idle"
          /\ result' \notin {"ok", "running"}
          /\ calls' \cap NetCalls = {}
          /\ files' = files
    /\ pc' = "fetch" => req'.provider = r

\* C10 as claimed: /return works on the in-flight provider when one is
\* recorded and on the name in its URL otherwise.
C10_ResolvesCalledName ==
    [][(pc = "idle" /\ session.present /\ op' = "return")
       => \A called \in ReturnNames :
             \/ ReturnStepFor(ClaimedProvider(called))
             \/ \A cb \in Callbacks : ~oauth_return(called, cb)]_vars

\* C10 as amended: the name in the URL counts with its trailing spaces
\* stripped, and the exception for a provider that is not in the session is
\* the handler's own "not in list of providers".
C10_ResolvesStrippedName ==
    [][(pc = "idle" /\ session.present /\ op' = "return")
       => \A called \in ReturnNames :
             \/ /\ ReturnStepFor(StrippedProvider(called))
                /\ StrippedProvider(called) \notin DOMAIN session.providers
                   => result' = "Exception"
             \/ \A cb \in Callbacks : ~oauth_return(called, cb)]_vars

\* C10 witness: a request proceeds to the token exchange for a provider that
\* is in flight at the time, and another for a provider that is not the last
\* one a /login request recorded.
C10_Witness ==
    /\ pc = "fetch"
    /\ pre.session.outgoing_provider = {req.provider}
    /\ Cardinality(DOMAIN session.providers) = 2

C10_WitnessNoneRecorded ==
    /\ pc = "fetch"
    /\ pre.session.outgoing_provider = {}

\* The provider a /return URL names: the name with trailing spaces stripped.
OwnProvider(called) == get_provider_str(called, << >>)

\* Two providers have begun their authorization and no callback has come in:
\* the last request was a /login, both hold an issued state, neither is
\* logged in.
TwoFlowsOpen ==
    /\ pc = "idle"
    /\ op = "login"
    /\ result = "ok"
    /\ session.outgoing_provider # {}
    /\ \E a, b \in DOMAIN session.providers :
         /\ a # b
         /\ session.outgoing_provider = {b}
         /\ session.providers[a].state # 0
         /\ session.providers[b].state # 0
         /\ session.providers[a].state # session.providers[b].state
         /\ ~session.providers[a].logged_in
         /\ ~session.providers[b].logged_in

\* C11 as claimed: when two providers have begun, the callback for either of
\* them, carrying the state issued to the provider its URL names, passes the
\* state check and goes on to the token exchange for that provider.
C11_FlowsIndependent ==
    [][(TwoFlowsOpen /\ op' = "return")
       => \A called \in ReturnNames :
            LET own == OwnProvider(called)
            IN \/ ~( /\ own \in DOMAIN session.providers
                     /\ session.providers[own].state # 0
                     /\ get_provider_ad(own, session.key_path).ok )
               \/ /\ pc' = "fetch"
                  /\ req'.provider = own
               \/ ~oauth_return(called,
                                [state |-> session.providers[own].state,
                                 has_code |-> TRUE])]_vars

\* The update that the last request of tab v made is in the browser's session:
\* the state a /login issued, or the logged_in flag a /return set.
UpdatePresent(v) ==
    /\ tabs[v].provider \in DOMAIN session.providers
    /\ IF tabs[v].last = "login"
       THEN session.providers[tabs[v].provider].state = tabs[v].state
       ELSE session.providers[tabs[v].provider].logged_in

\* The last requests of the two tabs overlapped, were both /login or both
\* /return, for different providers, and both have answered with success.
RaceFinished(t, u) ==
    /\ t # u
    /\ tabs[t].pc = "idle"
    /\ tabs[u].pc = "idle"
    /\ tabs[t].raced
    /\ tabs[u].raced
    /\ tabs[t].last \in {"login", "return"}
    /\ tabs[u].last = tabs[t].last
    /\ tabs[t].provider # tabs[u].provider

\* C12 as claimed: after two racing requests for different providers have
\* both succeeded, the session holds both updates and its logged_in is true
\* exactly when every provider's is.
C12_NoLostUpdate ==
    \A t, u \in Tabs :
       RaceFinished(t, u)
       => /\ UpdatePresent(t)
          /\ UpdatePresent(u)
          /\ session.logged_in <=>
               \A p \in DOMAIN session.providers : session.providers[p].logged_in

\* C13: once a request has written its triad, the metadata's
\* use_refresh_token is true exactly when the token response held a
\* refresh_token key; then the access file is the response without that key
\* and the refresh file is exactly {refresh_token: <value>}; otherwise the
\* refresh file is exactly {refresh_token: ""} and the access file is the
\* response unchanged.
C13_TokenSplit ==
    pc = "mark"
    => LET token == req.token
           had == "refresh_token" \in DOMAIN token
           access == files[ReqPath(1)].data
           refresh == files[ReqPath(2)].data
           metadata == files[ReqPath(3)].data
       IN /\ metadata.use_refresh_token = had
          /\ had => /\ "refresh_token" \notin DOMAIN access
                    /\ access = DictPop(token, "refresh_token")
                    /\ refresh = [refresh_token |-> token.refresh_token]
          /\ ~had => /\ access = token
                     /\ refresh = [refresh_token |-> << >>]

\* C13 witness: a triad was written from a response with a refresh token, and
\* one from a response without.
C13_Witness ==
    /\ pc = "mark"
    /\ "refresh_token" \in DOMAIN req.token
    /\ files[ReqPath(2)].data.refresh_token # << >>

C13_WitnessNoRefresh ==
    /\ pc = "mark"
    /\ "refresh_token" \notin DOMAIN req.token
    /\ files[ReqPath(2)].data.refresh_token = << >>

\* The username C14 claims for a JSON object: its `login` if it has one, else
\* its `sub` if it has one, else "Unknown".
ClaimedUsername(info) ==
    IF info.has_login THEN "login"
    ELSE IF info.has_sub THEN "sub"
    ELSE "Unknown"

\* C14: when the identity endpoint answers with a JSON object, the request
\* goes on and the provider's username is the value of `login` if the object
\* has that field, else the value of `sub` if it has that one, else "Unknown".
C14_IdentityResolution ==
    [][pc = "userinfo"
       => \A info \in UserInfos :
            ( /\ info.kind = "json"
              /\ req.ad.HasUserUrl
              /\ get_user_info(info) )
            => /\ pc' = "mkstemp"
               /\ session'.providers[req.provider].username
                    = ClaimedUsername(info)]_vars

\* C14 witness: a request has just taken its username from `login`, one from
\* `sub`, and one found neither.
C14_Witness ==
    /\ pc = "mkstemp"
    /\ req.i = 1
    /\ session.providers[req.provider].username = "login"

C14_WitnessSub ==
    /\ pc = "mkstemp"
    /\ req.i = 1
    /\ session.providers[req.provider].username = "sub"

C14_WitnessUnknown ==
    /\ pc = "mkstemp"
    /\ req.i = 1
    /\ session.providers[req.provider].username = "Unknown"

\* C15: a /login request for a provider that is not in the session's
\* providers ends in the "not in list of providers" exception and leaves the
\* session as it was: no state is issued or stored and no in-flight provider
\* is recorded.
C15_UnknownProviderLogin ==
    [][(pc = "idle" /\ session.present /\ op' = "login")
       => \A provider \in LoginNames :
            ( /\ provider \notin DOMAIN session.providers
              /\ oauth_login(provider) )
            => /\ result' = "Exception"
               /\ session' = session
               /\ nStates' = nStates]_vars

\* C15 witness: a /login for an unknown provider was refused in a session
\* that has providers, one of them with a flow under way.
C15_Witness ==
    /\ op = "login"
    /\ result = "Exception"
    /\ calls = {}
    /\ session.present
    /\ session.outgoing_provider # {}

\* A key id made only of hexadecimal characters.
HexOnly(k) == Len(k) >= 1 /\ \A i \in DOMAIN k : k[i] \in HexChars

\* C16 as claimed: a /key request whose key id is not made only of
\* hexadecimal characters ends in the format exception without an existence
\* check or an open of any file.
C16_NonHexRejectedBeforeFileAccess ==
    [][pc = "idle"
       => \A k \in KeyIds :
            (~HexOnly(k) /\ key(k))
            => /\ result' = "Exception"
               /\ calls' = {}]_vars

\* C17 as claimed: when /key/<key> has just built a session, a /login for a
\* provider of that key file sees the session that was built (the provider in
\* its providers, its key_path) and is not refused for a missing session or
\* an unknown provider.
C17_CreatedSessionIsSeen ==
    [][(pc = "idle" /\ op = "key" /\ result = "ok" /\ op' = "login")
       => \A provider \in LoginNames :
            ( /\ provider \in DOMAIN session_dict.providers
              /\ oauth_login(provider) )
            => /\ session.present
               /\ provider \in DOMAIN session.providers
               /\ session.key_path = session_dict.key_path
               /\ result' \notin {"KeyError", "Exception"}]_vars

\* C18: a /login for a provider that already holds a state stores a state
\* that was never issued before in its place; from then on a callback is
\* accepted for a provider only with the state stored for it, and a callback
\* that carries a state issued earlier is refused for its state, without a
\* network call.
C18_StaleStateOverwritten ==
    [][/\ (pc = "idle" /\ session.present /\ op' = "login" /\ result' = "ok")
          => \A provider \in LoginNames :
               \/ provider \notin DOMAIN session.providers
               \/ /\ session'.providers[provider].state = nStates'
                  /\ session'.providers[provider].state > nStates
                  /\ \A q \in DOMAIN session.providers :
                        session.providers[q].state <= nStates
               \/ ~oauth_login(provider)
       /\ (pc = "idle" /\ session.present /\ op' = "return")
          => \/ /\ pc' = "idle"
                /\ result' = "MismatchingStateError"
                /\ calls' \cap NetCalls = {}
             \/ \A called \in ReturnNames :
               LET p == ResolveProvider(session, called)
               IN \/ p \notin DOMAIN session.providers
                  \/ \A cb \in Callbacks :
                       \/ /\ pc' = "fetch"
                             => cb.state = session.providers[p].state
                          /\ (cb.state # 0 /\ cb.state < session.providers[p].state)
                             => /\ pc' = "idle"
                                /\ result' = "MismatchingStateError"
                                /\ calls' \cap NetCalls = {}
                       \/ ~oauth_return(called, cb)]_vars

\* C18 witness: the only provider of a session was issued a second state,
\* which replaced the first, and a callback was then refused for its state.
C18_Witness ==
    /\ op = "return"
    /\ result = "MismatchingStateError"
    /\ nStates = 2
    /\ DOMAIN session.providers = { <<"a">> }
    /\ session.providers[<<"a">>].state = 2

C18_WitnessOverwritten ==
    /\ op = "login"
    /\ result = "ok"
    /\ nStates = 2
    /\ DOMAIN session.providers = { <<"a">> }
    /\ session.providers[<<"a">>].state = 2

\* The last request was a /return that succeeded for provider p, with the
\* state that is stored for p: p is the only provider that is logged in, and
\* no request has come in since.
JustCompleted(p) ==
    /\ pc = "idle"
    /\ op = "return"
    /\ result = "ok"
    /\ p \in DOMAIN session.providers
    /\ session.providers[p].state # 0
    /\ session.providers[p].logged_in
    /\ \A q \in DOMAIN session.providers \ {p} : ~session.providers[q].logged_in

\* C19 as claimed: when a /return has just used the state stored for a
\* provider, a second callback for that provider with the same state (and no
\* /login in between) is not accepted: it ends in an exception and does not
\* go on to a token exchange.
C19_StateConsumed ==
    [][(pc = "idle" /\ op = "return" /\ result = "ok" /\ op' = "return")
       => \A called \in ReturnNames :
            LET p == ResolveProvider(session, called)
            IN \/ ~JustCompleted(p)
               \/ /\ pc' = "idle"
                  /\ result' \notin {"ok", "running"}
               \/ ~oauth_return(called, [state |-> session.providers[p].state,
                                         has_code |-> TRUE])]_vars

\* C20: a /return that resolves to a provider of the session for which no
\* state is stored (no /login was ever made for it) ends in an exception, and
\* that request makes no network call, writes no credential file and changes
\* no loggedIn flag.
C20_ReturnWithoutLogin ==
    [][(pc = "idle" /\ session.present /\ op' = "return")
       => \A called \in ReturnNames :
            LET p == ResolveProvider(session, called)
            IN \/ ~( /\ p \in DOMAIN session.providers
                     /\ session.providers[p].state = 0 )
               \/ /\ pc' = "idle"
                  /\ result' \notin {"ok", "running"}
                  /\ calls' \cap NetCalls = {}
                  /\ files' = files
                  /\ LoggedInFlags(session') = LoggedInFlags(session)
               \/ \A cb \in Callbacks : ~oauth_return(called, cb)]_vars

\* C20 witness: a /return found the provider and its record in the key file
\* but no stored state (the KeyError of line 245).
C20_Witness ==
    /\ op = "return"
    /\ result = "KeyError"
    /\ session.present
    /\ calls = {"fs_exists", "fs_open"}

====
